---- MODULE Spec2Model ----
(***************************************************************************)
(* Gas providers of hardhat-core                                           *)
(* (packages/hardhat-core/src/internal/core/providers/gas-providers.ts).   *)
(*                                                                         *)
(* One provider instance (the policy under study, chosen in Init together  *)
(* with its constructor arguments) serves calls of request(), at most      *)
(* MaxPending of them at a time.  A call runs synchronously up to its next *)
(* await on the wrapped provider; the wrapped provider answers each        *)
(* pending call with a value or with a rejection, in any order, so calls   *)
(* of request() overlap at their awaits.  When a call settles, its frame   *)
(* (arguments and locals) and the record of its requests to the wrapped    *)
(* provider are dropped; its outcome stays until the caller takes it.      *)
(*                                                                         *)
(* An optional value is a sequence of length at most one: <<>> is          *)
(* undefined, <<v>> is the value v.  An RPC quantity is the sequence of    *)
(* its hexadecimal digits after "0x".                                      *)
(***************************************************************************)
EXTENDS Integers, Sequences, FiniteSets, TLC

\* Number of calls of request() that can be in progress at a time.
MaxPending == 2

Requests == 1..MaxPending

undefined == <<>>

Some(v) == <<v>>

\* ------------------------------------------------------------------------
\* Quantity codec (../jsonrpc/types/base-types)

RECURSIVE numberToRpcQuantity(_)
numberToRpcQuantity(n) ==
  IF n < 16 THEN <<n>> ELSE Append(numberToRpcQuantity(n \div 16), n % 16)

RECURSIVE rpcQuantityToNumber(_)
rpcQuantityToNumber(q) ==
  IF Len(q) = 1
    THEN q[1]
    ELSE 16 * rpcQuantityToNumber(SubSeq(q, 1, Len(q) - 1)) + q[Len(q)]

rpcQuantityToBN(q) == rpcQuantityToNumber(q)

\* ------------------------------------------------------------------------
\* Values of the environment: what callers pass and what the wrapped
\* provider answers.

Methods ==
  {"eth_sendTransaction", "eth_estimateGas", "eth_getBlockByNumber",
   "eth_gasPrice", "eth_feeHistory", "eth_call"}

\* Rejections of the wrapped provider.  They are Error instances: one whose
\* message holds "execution error" in mixed letter case, one whose message
\* does not hold it.
ProviderErrors ==
  {[message |-> "VM Execution Error: revert"], [message |-> "timeout"]}

\* String.prototype.toLowerCase on the messages above.
toLowerCase(s) ==
  CASE s = "VM Execution Error: revert" -> "vm execution error: revert"
    [] OTHER -> s

\* s.includes("execution error") on lower-cased messages.
includesExecutionError(s) == s = "vm execution error: revert"

\* eth_estimateGas results.
Estimations == {numberToRpcQuantity(n) : n \in {19, 30}}

\* gasLimit of the latest block, as eth_getBlockByNumber reports it.
BlockGasLimits == {numberToRpcQuantity(n) : n \in {20, 40}}

DEFAULT_GAS_MULTIPLIER == 1

\* Gas multipliers (num / den) an AutomaticGasProvider is constructed with.
GasMultipliers ==
  {[num |-> DEFAULT_GAS_MULTIPLIER, den |-> 1], [num |-> 3, den |-> 2],
   [num |-> 2, den |-> 1]}

\* Gas limits a FixedGasProvider is constructed with.
GasLimits == {21, 300}

\* Gas prices a FixedGasPriceProvider is constructed with.
FixedGasPrices == {5, 17}

\* Results of the forwarded request.
ForwardResults == {"0xhash"}

\* Transaction parameters (params[0] of eth_sendTransaction, and the call
\* object of eth_call).
Tx(gas, gasPrice, maxFeePerGas, maxPriorityFeePerGas) ==
  [gas |-> gas, gasPrice |-> gasPrice, maxFeePerGas |-> maxFeePerGas,
   maxPriorityFeePerGas |-> maxPriorityFeePerGas]

\* RequestArguments given to a gas-limit policy.
GasArgs ==
  {[method |-> "eth_call",
    params |-> <<Tx(undefined, undefined, undefined, undefined)>>],
   [method |-> "eth_sendTransaction", params |-> <<>>]}
  \cup
  {[method |-> "eth_sendTransaction", params |-> <<tx>>] :
     tx \in {Tx(undefined, Some(numberToRpcQuantity(3)), undefined, undefined),
             Tx(Some(numberToRpcQuantity(8)), undefined, undefined, undefined)}}

\* RequestArguments given to a gas-price policy.
PriceArgs ==
  {[method |-> "eth_call",
    params |-> <<Tx(undefined, undefined, undefined, undefined)>>],
   [method |-> "eth_sendTransaction", params |-> <<>>]}
  \cup
  {[method |-> "eth_sendTransaction",
    params |-> <<Tx(undefined, undefined, maxFeePerGas, maxPriorityFeePerGas)>>] :
      maxFeePerGas \in {undefined, Some(numberToRpcQuantity(3))},
      maxPriorityFeePerGas \in {undefined, Some(numberToRpcQuantity(8))}}
  \cup
  {[method |-> "eth_sendTransaction",
    params |-> <<Tx(undefined, Some(numberToRpcQuantity(3)), maxFeePerGas,
                    undefined)>>] :
      maxFeePerGas \in {undefined, Some(numberToRpcQuantity(3))}}

\* Latest blocks as eth_getBlockByNumber reports them to the gas-price
\* policy: before and after the fee market.
LatestBlocks ==
  {[baseFeePerGas |-> undefined],
   [baseFeePerGas |-> Some(numberToRpcQuantity(7))]}

\* eth_feeHistory results for one block and one percentile.
FeeHistories ==
  {[baseFeePerGas |-> <<numberToRpcQuantity(7), numberToRpcQuantity(b1)>>,
    reward |-> << <<numberToRpcQuantity(6)>> >>] : b1 \in {4, 100}}

\* Largest next-block base fee and largest reward of the eth_feeHistory
\* results the projection is computed for.
MaxBaseFee == 20

MaxReward == 3

\* eth_feeHistory results [b0, b1], [[r]] over whole ranges of b1 and r, with
\* a b0 that differs from b1.
FeeHistoryRange ==
  {[baseFeePerGas |-> <<numberToRpcQuantity(b0), numberToRpcQuantity(b1)>>,
    reward |-> << <<numberToRpcQuantity(rw)>> >>] :
     b0 \in {7, 50}, b1 \in 0..MaxBaseFee, rw \in 0..MaxReward}

\* eth_gasPrice results.
GasPrices == {numberToRpcQuantity(n) : n \in {2, 9}}

NoArgs == [method |-> "none", params |-> <<>>]

\* ------------------------------------------------------------------------
\* State

VARIABLES
  policy,                  \* class of the provider instance
  _gasLimit,               \* FixedGasProvider._gasLimit
  _gasPrice,               \* FixedGasPriceProvider._gasPrice
  _gasMultiplier,          \* MultipliedGasEstimationProvider._gasMultiplier
  _blockGasLimit,          \* MultipliedGasEstimationProvider._blockGasLimit
  _nodeHasFeeHistory,      \* AutomaticGasPriceProvider._nodeHasFeeHistory
  _nodeSupportsEIP1559,    \* AutomaticGasPriceProvider._nodeSupportsEIP1559
  pc,                      \* per call of request(): the await it is suspended at
  given,                   \* per call: the RequestArguments as the caller built them
  args,                    \* per call: the RequestArguments object (tx mutated in place)
  realEstimation,          \* per call: local of _getMultipliedGasEstimation (line 71)
  caught,                  \* per call: error bound by its catch clause (line 87)
  suggestedEip1559Values,  \* per call: local of AutomaticGasPriceProvider.request,
                           \*   Some(v) once line 173 has assigned v
  response,                \* per call: local of _suggestEip1559FeePriceValues
                           \*   (line 248)
  calls,                   \* per call: requests it made to _wrappedProvider, by method
  rejection,               \* per call: the rejection _wrappedProvider answered it
                           \*   with in its last step, if it did
  result,                  \* per call: value its promise resolved with
  error                    \* per call: value its promise rejected with

vars ==
  <<policy, _gasLimit, _gasPrice, _gasMultiplier, _blockGasLimit, _nodeHasFeeHistory,
    _nodeSupportsEIP1559, pc, given, args, realEstimation, caught,
    suggestedEip1559Values, response, calls, rejection, result, error>>

fields ==
  <<_blockGasLimit, _nodeHasFeeHistory, _nodeSupportsEIP1559>>

config == <<policy, _gasLimit, _gasPrice, _gasMultiplier>>

\* State after construction of an instance of class p.
Constructed(p) ==
  /\ policy = p
  /\ _blockGasLimit = undefined
  /\ _nodeHasFeeHistory = undefined
  /\ _nodeSupportsEIP1559 = undefined
  /\ pc = [r \in Requests |-> "idle"]
  /\ given = [r \in Requests |-> NoArgs]
  /\ args = [r \in Requests |-> NoArgs]
  /\ realEstimation = [r \in Requests |-> undefined]
  /\ caught = [r \in Requests |-> undefined]
  /\ suggestedEip1559Values = [r \in Requests |-> undefined]
  /\ response = [r \in Requests |-> undefined]
  /\ calls = [r \in Requests |-> [m \in Methods |-> 0]]
  /\ rejection = [r \in Requests |-> undefined]
  /\ result = [r \in Requests |-> undefined]
  /\ error = [r \in Requests |-> undefined]

\* ------------------------------------------------------------------------
\* Steps shared by the policies.  Each of them says what becomes of the
\* frame, the position and the outcome of call r; the actions add what
\* becomes of the instance and of the wrapped provider's last rejection.

\* The frame of call r.
Frame(r) ==
  [given |-> given[r], args |-> args[r], realEstimation |-> realEstimation[r],
   caught |-> caught[r], suggestedEip1559Values |-> suggestedEip1559Values[r],
   response |-> response[r]]

\* The frame of a call of request(a) as it starts.
NewFrame(a) ==
  [given |-> a, args |-> a, realEstimation |-> undefined, caught |-> undefined,
   suggestedEip1559Values |-> undefined, response |-> undefined]

NoFrame == NewFrame(NoArgs)

SetFrame(r, f) ==
  /\ given' = [given EXCEPT ![r] = f.given]
  /\ args' = [args EXCEPT ![r] = f.args]
  /\ realEstimation' = [realEstimation EXCEPT ![r] = f.realEstimation]
  /\ caught' = [caught EXCEPT ![r] = f.caught]
  /\ suggestedEip1559Values' =
       [suggestedEip1559Values EXCEPT ![r] = f.suggestedEip1559Values]
  /\ response' = [response EXCEPT ![r] = f.response]

\* Call r, with frame f, reaches `await this._wrappedProvider.request(
\* {method, ...})` and is suspended there, at `label`.
Await(r, label, method, f) ==
  /\ pc' = [pc EXCEPT ![r] = label]
  /\ calls' = [calls EXCEPT ![r][method] = @ + 1]
  /\ SetFrame(r, f)
  /\ UNCHANGED <<result, error>>

\* return this._wrappedProvider.request(args)
Forward(r, f) == Await(r, "forward", f.args.method, f)

\* Call r settles as `outcome`.
Settle(r, outcome) ==
  /\ pc' = [pc EXCEPT ![r] = outcome]
  /\ calls' = [calls EXCEPT ![r] = [m \in Methods |-> 0]]
  /\ SetFrame(r, NoFrame)

\* Variant: the request is forwarded although an await of the policy threw.
ForwardAnyway(r, e) == Forward(r, Frame(r))

\* An await of the policy throws e: the promise returned by request()
\* rejects with e and nothing is forwarded.
Throw(r, e) ==
  /\ Settle(r, "failed")
  /\ error' = [error EXCEPT ![r] = Some(e)]
  /\ UNCHANGED result

\* The wrapped provider rejects the pending request of call r with e.
Rejected(r, e) == rejection' = [rejection EXCEPT ![r] = Some(e)]

\* The wrapped provider resolves the pending request of call r.
Resolved(r) == rejection' = [rejection EXCEPT ![r] = undefined]

\* The caller takes the outcome of a settled call; it may call again.
Settled(r) ==
  /\ pc[r] \in {"resolved", "rejected", "failed"}
  /\ pc' = [pc EXCEPT ![r] = "idle"]
  /\ rejection' = [rejection EXCEPT ![r] = undefined]
  /\ result' = [result EXCEPT ![r] = undefined]
  /\ error' = [error EXCEPT ![r] = undefined]
  /\ UNCHANGED <<config, fields, given, args, realEstimation, caught,
                 suggestedEip1559Values, response, calls>>

\* The forwarded request resolves: the promise returned by request()
\* resolves with the same value.
ForwardResolves(r) ==
  /\ pc[r] = "forward"
  /\ Resolved(r)
  /\ \E v \in ForwardResults : result' = [result EXCEPT ![r] = Some(v)]
  /\ Settle(r, "resolved")
  /\ UNCHANGED <<config, fields, error>>

\* The forwarded request rejects: the promise returned by request() rejects
\* with the same value.
ForwardRejects(r) ==
  /\ pc[r] = "forward"
  /\ \E e \in ProviderErrors :
       /\ Rejected(r, e)
       /\ error' = [error EXCEPT ![r] = Some(e)]
  /\ Settle(r, "rejected")
  /\ UNCHANGED <<config, fields, result>>

\* Variant: every method is handled like eth_sendTransaction.
anyMethod(a) == TRUE

\* args.method === "eth_sendTransaction"
isSendTransaction(a) == a.method = "eth_sendTransaction"

\* Variant: gas is taken to be missing also when the caller gave it.
gasNeverGiven(a) == isSendTransaction(a) /\ a.params # <<>>

\* args.method === "eth_sendTransaction" && tx !== undefined &&
\* tx.gas === undefined
gasIsMissing(a) ==
  /\ isSendTransaction(a)
  /\ a.params # <<>>
  /\ a.params[1].gas = undefined

\* tx.gas is set to q, then the request is forwarded.
SetGas(r, f, q) == Forward(r, [f EXCEPT !.args.params[1].gas = Some(q)])

\* ------------------------------------------------------------------------
\* FixedGasProvider

FixedGasProvider_request(r) ==
  /\ policy = "FixedGasProvider"
  /\ pc[r] = "idle"
  /\ \E a \in GasArgs :
       IF gasIsMissing(a)
         THEN SetGas(r, NewFrame(a), numberToRpcQuantity(_gasLimit))
         ELSE Forward(r, NewFrame(a))
  /\ UNCHANGED <<config, fields, rejection>>

\* ------------------------------------------------------------------------
\* FixedGasPriceProvider

\* Variant: only gasPrice is looked at.
gasPriceIsAbsent(a) ==
  /\ isSendTransaction(a)
  /\ a.params # <<>>
  /\ a.params[1].gasPrice = undefined

\* args.method === "eth_sendTransaction" && tx !== undefined &&
\* tx.gasPrice === undefined && tx.maxFeePerGas === undefined &&
\* tx.maxPriorityFeePerGas === undefined
pricingIsMissing(a) ==
  /\ isSendTransaction(a)
  /\ a.params # <<>>
  /\ a.params[1].gasPrice = undefined
  /\ a.params[1].maxFeePerGas = undefined
  /\ a.params[1].maxPriorityFeePerGas = undefined

FixedGasPriceProvider_request(r) ==
  /\ policy = "FixedGasPriceProvider"
  /\ pc[r] = "idle"
  /\ \E a \in PriceArgs :
       IF pricingIsMissing(a)
         THEN Forward(r, [NewFrame(a) EXCEPT !.args.params[1].gasPrice =
                            Some(numberToRpcQuantity(_gasPrice))])
         ELSE Forward(r, NewFrame(a))
  /\ UNCHANGED <<config, fields, rejection>>

\* ------------------------------------------------------------------------
\* MultipliedGasEstimationProvider / AutomaticGasProvider

\* Variant: the fast path for multiplier 1 is never taken.
multiplierNeverOne(m) == FALSE

\* this._gasMultiplier === 1
multiplierIsOne(m) == m.num = m.den

\* Math.floor(normalGas * this._gasMultiplier), kept under gasLimit.
multipliedGas(normalGas, gasLimit, m) ==
  LET multiplied == (normalGas * m.num) \div m.den
  IN  IF multiplied > gasLimit THEN gasLimit - 1 ELSE multiplied

\* Math.floor(fetchedGasLimit * 0.95)
safeBlockGasLimit(fetchedGasLimit) == (fetchedGasLimit * 95) \div 100

\* Variant: the catch block recovers from every error.
everyErrorIsExecutionError(e) == TRUE

\* error instanceof Error &&
\* error.message.toLowerCase().includes("execution error")
isExecutionError(e) == includesExecutionError(toLowerCase(e.message))

\* Variant: the recovered estimation is clamped like a multiplied one.
executionErrorGasBelowLimit(blockGasLimit) == blockGasLimit - 1

\* The block gas limit returned to the catch block becomes the estimation.
executionErrorGas(blockGasLimit) == blockGasLimit

\* The catch block of _getMultipliedGasEstimation, entered with error e.
CatchEstimationError(r, e) ==
  IF isExecutionError(e)
    THEN LET f == [Frame(r) EXCEPT !.caught = Some(e)]
         IN  IF _blockGasLimit = undefined
               THEN Await(r, "blockGasLimit_catch", "eth_getBlockByNumber", f)
               ELSE SetGas(r, f, numberToRpcQuantity(
                                   executionErrorGas(_blockGasLimit[1])))
    ELSE Throw(r, e)

AutomaticGasProvider_request(r) ==
  /\ policy = "AutomaticGasProvider"
  /\ pc[r] = "idle"
  /\ \E a \in GasArgs :
       IF gasIsMissing(a)
         THEN Await(r, "estimateGas", "eth_estimateGas", NewFrame(a))
         ELSE Forward(r, NewFrame(a))
  /\ UNCHANGED <<config, fields, rejection>>

\* eth_estimateGas resolves.
EstimateGasResolves(r) ==
  /\ pc[r] = "estimateGas"
  /\ Resolved(r)
  /\ \E q \in Estimations :
       LET f == [Frame(r) EXCEPT !.realEstimation = Some(q)]
           normalGas == rpcQuantityToNumber(q)
       IN  IF multiplierIsOne(_gasMultiplier)
             THEN SetGas(r, f, q)
             ELSE IF _blockGasLimit = undefined
                    THEN Await(r, "blockGasLimit_try", "eth_getBlockByNumber", f)
                    ELSE SetGas(r, f, numberToRpcQuantity(
                           multipliedGas(normalGas, _blockGasLimit[1],
                                         _gasMultiplier)))
  /\ UNCHANGED <<config, fields>>

\* eth_estimateGas rejects.
EstimateGasRejects(r) ==
  /\ pc[r] = "estimateGas"
  /\ \E e \in ProviderErrors : Rejected(r, e) /\ CatchEstimationError(r, e)
  /\ UNCHANGED <<config, fields>>

\* eth_getBlockByNumber of _getBlockGasLimit resolves: the field is written
\* and its value returned to the suspended _getMultipliedGasEstimation.
BlockGasLimitResolves(r) ==
  /\ pc[r] \in {"blockGasLimit_try", "blockGasLimit_catch"}
  /\ Resolved(r)
  /\ \E fetched \in BlockGasLimits :
       LET gasLimit == safeBlockGasLimit(rpcQuantityToNumber(fetched))
           normalGas == rpcQuantityToNumber(realEstimation[r][1])
       IN  /\ _blockGasLimit' = Some(gasLimit)
           /\ IF pc[r] = "blockGasLimit_try"
                THEN SetGas(r, Frame(r), numberToRpcQuantity(
                       multipliedGas(normalGas, gasLimit, _gasMultiplier)))
                ELSE SetGas(r, Frame(r), numberToRpcQuantity(
                       executionErrorGas(gasLimit)))
  /\ UNCHANGED <<config, _nodeHasFeeHistory, _nodeSupportsEIP1559>>

\* eth_getBlockByNumber of _getBlockGasLimit rejects.  Inside the try block
\* the rejection reaches the catch block; inside the catch block it leaves
\* _getMultipliedGasEstimation.
BlockGasLimitRejects(r) ==
  /\ pc[r] \in {"blockGasLimit_try", "blockGasLimit_catch"}
  /\ \E e \in ProviderErrors :
       /\ Rejected(r, e)
       /\ IF pc[r] = "blockGasLimit_try"
            THEN CatchEstimationError(r, e)
            ELSE Throw(r, e)
  /\ UNCHANGED <<config, fields>>

\* ------------------------------------------------------------------------
\* AutomaticGasPriceProvider

EIP1559_BASE_FEE_MAX_FULL_BLOCKS_PREFERENCE == 3

\* Variant: only a complete fee-market pair counts as pricing given by the
\* caller.
feePairIsSet(tx) ==
  tx.maxFeePerGas # undefined /\ tx.maxPriorityFeePerGas # undefined

\* Variant: only gasPrice counts as pricing given by the caller.
gasPriceIsSet(tx) == tx.gasPrice # undefined

\* tx.gasPrice !== undefined || (tx.maxFeePerGas !== undefined &&
\* tx.maxPriorityFeePerGas !== undefined)
pricingIsSet(tx) ==
  \/ tx.gasPrice # undefined
  \/ tx.maxFeePerGas # undefined /\ tx.maxPriorityFeePerGas # undefined

\* The request is passed through untouched.
passesThrough(a) ==
  \/ ~isSendTransaction(a)
  \/ a.params = <<>>
  \/ pricingIsSet(a.params[1])

\* Variant: _nodeHasFeeHistory is not consulted.
feeMarketUnsupported(nodeHasFeeHistory, nodeSupportsEIP1559) ==
  nodeSupportsEIP1559 = Some(FALSE)

\* this._nodeHasFeeHistory === false || this._nodeSupportsEIP1559 === false
projectionUnavailable(nodeHasFeeHistory, nodeSupportsEIP1559) ==
  \/ nodeHasFeeHistory = Some(FALSE)
  \/ nodeSupportsEIP1559 = Some(FALSE)

\* Variant: the cap is computed from the first base-fee entry.
suggestedFromFirstBaseFee(fetched) ==
  [maxFeePerGas |->
     (rpcQuantityToBN(fetched.baseFeePerGas[1])
        * 9 ^ (EIP1559_BASE_FEE_MAX_FULL_BLOCKS_PREFERENCE - 1))
       \div 8 ^ (EIP1559_BASE_FEE_MAX_FULL_BLOCKS_PREFERENCE - 1),
   maxPriorityFeePerGas |-> rpcQuantityToBN(fetched.reward[1][1])]

\* The values _suggestEip1559FeePriceValues returns from an eth_feeHistory
\* response (baseFeePerGas[1] and reward[0][0] of the source are the second
\* and the first entries).
suggestedFromFeeHistory(fetched) ==
  [maxFeePerGas |->
     (rpcQuantityToBN(fetched.baseFeePerGas[2])
        * 9 ^ (EIP1559_BASE_FEE_MAX_FULL_BLOCKS_PREFERENCE - 1))
       \div 8 ^ (EIP1559_BASE_FEE_MAX_FULL_BLOCKS_PREFERENCE - 1),
   maxPriorityFeePerGas |-> rpcQuantityToBN(fetched.reward[1][1])]

\* Variant: a maxFeePerGas below maxPriorityFeePerGas is raised to it.
maxOfFees(maxFeePerGas, maxPriorityFeePerGas) ==
  IF maxFeePerGas < maxPriorityFeePerGas
    THEN maxPriorityFeePerGas
    ELSE maxFeePerGas

\* if (maxFeePerGas.lt(maxPriorityFeePerGas))
\*   maxFeePerGas = maxFeePerGas.add(maxPriorityFeePerGas)
correctedMaxFeePerGas(maxFeePerGas, maxPriorityFeePerGas) ==
  IF maxFeePerGas < maxPriorityFeePerGas
    THEN maxFeePerGas + maxPriorityFeePerGas
    ELSE maxFeePerGas

\* Variant: the caller's fee-market values are ignored.
suggestedFeesOnly(tx, suggested) ==
  [maxFeePerGas |->
     correctedMaxFeePerGas(suggested.maxFeePerGas,
                           suggested.maxPriorityFeePerGas),
   maxPriorityFeePerGas |-> suggested.maxPriorityFeePerGas]

\* The fee-market values request() settles on for tx, from the suggested
\* values.
resolvedFees(tx, suggested) ==
  LET maxFeePerGas ==
        IF tx.maxFeePerGas # undefined
          THEN rpcQuantityToBN(tx.maxFeePerGas[1])
          ELSE suggested.maxFeePerGas
      maxPriorityFeePerGas ==
        IF tx.maxPriorityFeePerGas # undefined
          THEN rpcQuantityToBN(tx.maxPriorityFeePerGas[1])
          ELSE suggested.maxPriorityFeePerGas
  IN  [maxFeePerGas |->
         correctedMaxFeePerGas(maxFeePerGas, maxPriorityFeePerGas),
       maxPriorityFeePerGas |-> maxPriorityFeePerGas]

\* tx.maxFeePerGas and tx.maxPriorityFeePerGas are written, then the request
\* is forwarded.
SetFees(r, f, suggested) ==
  LET fees == resolvedFees(f.args.params[1], suggested)
  IN  Forward(r,
        [f EXCEPT
           !.args.params[1].maxFeePerGas =
              Some(numberToRpcQuantity(fees.maxFeePerGas)),
           !.args.params[1].maxPriorityFeePerGas =
              Some(numberToRpcQuantity(fees.maxPriorityFeePerGas))])

\* Variant: a failed projection never leads to a legacy transaction.
legacyFallbackNever(tx, suggested) == FALSE

\* tx.maxFeePerGas === undefined && tx.maxPriorityFeePerGas === undefined &&
\* suggestedEip1559Values === undefined
legacyFallback(tx, suggested) ==
  /\ tx.maxFeePerGas = undefined
  /\ tx.maxPriorityFeePerGas = undefined
  /\ suggested = undefined

\* request() from the return of _suggestEip1559FeePriceValues on, with the
\* returned value (undefined, or Some of the suggested values).
Priced(r, f, suggested) ==
  LET tx == f.args.params[1]
      f1 == [f EXCEPT !.suggestedEip1559Values = Some(suggested)]
  IN  IF legacyFallback(tx, suggested)
        THEN Await(r, "gasPrice_legacy", "eth_gasPrice", f1)
        ELSE IF suggested = undefined
               THEN Await(r, "gasPrice_default", "eth_gasPrice", f1)
               ELSE SetFees(r, f1, suggested[1])

\* _suggestEip1559FeePriceValues from its second test on, with the values of
\* the two flags at that point.
Suggest(r, f, nodeHasFeeHistory, nodeSupportsEIP1559) ==
  IF projectionUnavailable(nodeHasFeeHistory, nodeSupportsEIP1559)
    THEN Priced(r, f, undefined)
    ELSE Await(r, "feeHistory", "eth_feeHistory", f)

AutomaticGasPriceProvider_request(r) ==
  /\ policy = "AutomaticGasPriceProvider"
  /\ pc[r] = "idle"
  /\ \E a \in PriceArgs :
       IF passesThrough(a)
         THEN Forward(r, NewFrame(a))
         ELSE IF _nodeSupportsEIP1559 = undefined
                THEN Await(r, "latestBlock", "eth_getBlockByNumber", NewFrame(a))
                ELSE Suggest(r, NewFrame(a), _nodeHasFeeHistory,
                             _nodeSupportsEIP1559)
  /\ UNCHANGED <<config, fields, rejection>>

\* eth_getBlockByNumber of _suggestEip1559FeePriceValues resolves.
LatestBlockResolves(r) ==
  /\ pc[r] = "latestBlock"
  /\ Resolved(r)
  /\ \E block \in LatestBlocks :
       LET supported == Some(block.baseFeePerGas # undefined)
       IN  /\ _nodeSupportsEIP1559' = supported
           /\ Suggest(r, Frame(r), _nodeHasFeeHistory, supported)
  /\ UNCHANGED <<config, _blockGasLimit, _nodeHasFeeHistory>>

\* eth_getBlockByNumber of _suggestEip1559FeePriceValues rejects.
LatestBlockRejects(r) ==
  /\ pc[r] = "latestBlock"
  /\ \E e \in ProviderErrors : Rejected(r, e) /\ Throw(r, e)
  /\ UNCHANGED <<config, fields>>

\* eth_feeHistory resolves with one of `responses`.
FeeHistoryResolvesWith(r, responses) ==
  /\ pc[r] = "feeHistory"
  /\ Resolved(r)
  /\ \E fetched \in responses :
       Priced(r, [Frame(r) EXCEPT !.response = Some(fetched)],
              Some(suggestedFromFeeHistory(fetched)))
  /\ UNCHANGED <<config, fields>>

\* eth_feeHistory resolves.
FeeHistoryResolves(r) == FeeHistoryResolvesWith(r, FeeHistories)

\* eth_feeHistory rejects.
FeeHistoryRejects(r) ==
  /\ pc[r] = "feeHistory"
  /\ \E e \in ProviderErrors : Rejected(r, e)
  /\ _nodeHasFeeHistory' = Some(FALSE)
  /\ Priced(r, Frame(r), undefined)
  /\ UNCHANGED <<config, _blockGasLimit, _nodeSupportsEIP1559>>

\* eth_gasPrice of _getGasPrice resolves.
GasPriceResolves(r) ==
  /\ pc[r] \in {"gasPrice_legacy", "gasPrice_default"}
  /\ Resolved(r)
  /\ \E fetched \in GasPrices :
       LET gasPrice == rpcQuantityToBN(fetched)
       IN  IF pc[r] = "gasPrice_legacy"
             THEN Forward(r, [Frame(r) EXCEPT !.args.params[1].gasPrice =
                                Some(numberToRpcQuantity(gasPrice))])
             ELSE LET suggested == [maxFeePerGas |-> gasPrice,
                                    maxPriorityFeePerGas |-> gasPrice]
                  IN  SetFees(r, [Frame(r) EXCEPT !.suggestedEip1559Values =
                                    Some(Some(suggested))], suggested)
  /\ UNCHANGED <<config, fields>>

\* eth_gasPrice of _getGasPrice rejects.
GasPriceRejects(r) ==
  /\ pc[r] \in {"gasPrice_legacy", "gasPrice_default"}
  /\ \E e \in ProviderErrors : Rejected(r, e) /\ Throw(r, e)
  /\ UNCHANGED <<config, fields>>

\* ------------------------------------------------------------------------
\* Specifications

InitFixedGas ==
  /\ Constructed("FixedGasProvider")
  /\ _gasLimit \in GasLimits
  /\ _gasPrice = undefined
  /\ _gasMultiplier = [num |-> DEFAULT_GAS_MULTIPLIER, den |-> 1]

NextFixedGas ==
  \E r \in Requests :
    \/ FixedGasProvider_request(r)
    \/ ForwardResolves(r)
    \/ ForwardRejects(r)
    \/ Settled(r)

SpecFixedGas == InitFixedGas /\ [][NextFixedGas]_vars

InitFixedGasPrice ==
  /\ Constructed("FixedGasPriceProvider")
  /\ _gasLimit = undefined
  /\ _gasPrice \in FixedGasPrices
  /\ _gasMultiplier = [num |-> DEFAULT_GAS_MULTIPLIER, den |-> 1]

NextFixedGasPrice ==
  \E r \in Requests :
    \/ FixedGasPriceProvider_request(r)
    \/ ForwardResolves(r)
    \/ ForwardRejects(r)
    \/ Settled(r)

SpecFixedGasPrice == InitFixedGasPrice /\ [][NextFixedGasPrice]_vars

InitGas ==
  /\ Constructed("AutomaticGasProvider")
  /\ _gasLimit = undefined
  /\ _gasPrice = undefined
  /\ _gasMultiplier \in GasMultipliers

NextGas ==
  \E r \in Requests :
    \/ AutomaticGasProvider_request(r)
    \/ EstimateGasResolves(r)
    \/ EstimateGasRejects(r)
    \/ BlockGasLimitResolves(r)
    \/ BlockGasLimitRejects(r)
    \/ ForwardResolves(r)
    \/ ForwardRejects(r)
    \/ Settled(r)

SpecGas == InitGas /\ [][NextGas]_vars

InitGasPrice ==
  /\ Constructed("AutomaticGasPriceProvider")
  /\ _gasLimit = undefined
  /\ _gasPrice = undefined
  /\ _gasMultiplier = [num |-> DEFAULT_GAS_MULTIPLIER, den |-> 1]

NextGasPrice ==
  \E r \in Requests :
    \/ AutomaticGasPriceProvider_request(r)
    \/ LatestBlockResolves(r)
    \/ LatestBlockRejects(r)
    \/ FeeHistoryResolves(r)
    \/ FeeHistoryRejects(r)
    \/ GasPriceResolves(r)
    \/ GasPriceRejects(r)
    \/ ForwardResolves(r)
    \/ ForwardRejects(r)
    \/ Settled(r)

SpecGasPrice == InitGasPrice /\ [][NextGasPrice]_vars

\* An AutomaticGasPriceProvider whose caller awaits each request before it
\* makes the next, on a node whose eth_feeHistory answers range over
\* FeeHistoryRange.
Sequential(r) == \A q \in Requests \ {r} : pc[q] = "idle"

NextFeeHistory ==
  \E r \in Requests :
    /\ Sequential(r)
    /\ \/ AutomaticGasPriceProvider_request(r)
       \/ LatestBlockResolves(r)
       \/ LatestBlockRejects(r)
       \/ FeeHistoryResolvesWith(r, FeeHistoryRange)
       \/ FeeHistoryRejects(r)
       \/ GasPriceResolves(r)
       \/ GasPriceRejects(r)
       \/ ForwardResolves(r)
       \/ ForwardRejects(r)
       \/ Settled(r)

SpecFeeHistory == InitGasPrice /\ [][NextFeeHistory]_vars

Init == InitFixedGas \/ InitFixedGasPrice \/ InitGas \/ InitGasPrice

Next == NextFixedGas \/ NextFixedGasPrice \/ NextGas \/ NextGasPrice

Spec == Init /\ [][Next]_vars

\* ------------------------------------------------------------------------
\* Properties of AutomaticGasProvider (checked under SpecGas)

BlockLookups(r) == calls[r]["eth_getBlockByNumber"]

Sends(r) == calls[r]["eth_sendTransaction"]

\* tx.gas of the RequestArguments a, as a number.
GasOf(a) == rpcQuantityToNumber(a.params[1].gas[1])

\* The awaits of _getMultipliedGasEstimation.
EstimationAwaits == {"estimateGas", "blockGasLimit_try", "blockGasLimit_catch"}

\* The instance was constructed with gas multiplier 1.
MultiplierOne == _gasMultiplier.num = _gasMultiplier.den

\* C1: over the lifetime of an AutomaticGasProvider the block-gas-limit
\* lookup eth_getBlockByNumber is issued at most once, whatever the number of
\* eth_sendTransaction requests and however they overlap; so no two calls of
\* request() have each issued it.
C1_BlockGasLimitLookedUpOnce ==
  \A r1, r2 \in Requests :
    r1 # r2 => ~(BlockLookups(r1) > 0 /\ BlockLookups(r2) > 0)

\* C2: with a multiplier other than 1 and a successful eth_estimateGas, the
\* gas that _getMultipliedGasEstimation returns never exceeds the cached
\* block gas limit minus one.
C2_MultipliedGasBelowBlockGasLimit ==
  [][\A r \in Requests :
       (/\ pc[r] \in {"estimateGas", "blockGasLimit_try"}
        /\ pc'[r] = "forward"
        /\ caught'[r] = undefined
        /\ ~MultiplierOne)
       => GasOf(args'[r]) <= _blockGasLimit'[1] - 1]_vars

\* C3: while it serves one request a policy invokes each method of the
\* wrapped provider at most once, also when one of the calls fails.
C3_NoCallRepeated ==
  \A r \in Requests : \A m \in Methods : calls[r][m] <= 1

\* C4: once set, the cached block gas limit never changes, and it is always
\* floor(0.95 * gasLimit) of a block eth_getBlockByNumber returned.
C4_BlockGasLimitNeverChanges ==
  [][/\ _blockGasLimit # undefined => _blockGasLimit' = _blockGasLimit
     /\ _blockGasLimit' # undefined =>
          \E fetched \in BlockGasLimits :
            _blockGasLimit'[1] =
              (rpcQuantityToNumber(fetched) * 95) \div 100]_vars

\* C7 as stated: a call whose eth_estimateGas failed with an "execution
\* error" message is not rejected before it is forwarded, and it is forwarded
\* with tx.gas equal to the cached block gas limit.
C7_ExecutionErrorAlwaysRecovered ==
  [][\A r \in Requests :
       (/\ pc[r] \in {"estimateGas", "blockGasLimit_catch"}
        /\ pc'[r] # pc[r]
        /\ realEstimation[r] = undefined
        /\ pc[r] = "estimateGas" =>
             /\ rejection'[r] # undefined
             /\ includesExecutionError(toLowerCase(rejection'[r][1].message)))
       => /\ pc'[r] \in {"blockGasLimit_catch", "forward"}
          /\ pc'[r] = "forward" =>
               args'[r].params[1].gas =
                 Some(numberToRpcQuantity(_blockGasLimit'[1]))]_vars

\* C7, amended: when eth_estimateGas fails with an "execution error"
\* message, for every multiplier, the error is not surfaced; if the block gas
\* limit is cached the request is forwarded at once with tx.gas equal to it;
\* otherwise the limit is looked up, and the request is forwarded with tx.gas
\* equal to the limit just cached, unless the lookup itself fails, in which
\* case the lookup's error is surfaced and nothing is forwarded.
C7_ExecutionErrorRecovered ==
  [][\A r \in Requests :
       /\ (/\ pc[r] = "estimateGas"
           /\ pc'[r] # pc[r]
           /\ rejection'[r] # undefined
           /\ includesExecutionError(toLowerCase(rejection'[r][1].message)))
          => /\ pc'[r] =
                  IF _blockGasLimit = undefined
                    THEN "blockGasLimit_catch" ELSE "forward"
             /\ pc'[r] = "forward" =>
                  /\ args'[r].params[1].gas =
                       Some(numberToRpcQuantity(_blockGasLimit[1]))
                  /\ Sends(r)' = 1
             /\ pc'[r] = "blockGasLimit_catch" =>
                  /\ args'[r] = args[r]
                  /\ Sends(r)' = 0
       /\ (/\ pc[r] = "blockGasLimit_catch"
           /\ pc'[r] # pc[r]
           /\ realEstimation[r] = undefined)
          => \/ /\ pc'[r] = "forward"
                /\ args'[r].params[1].gas =
                     Some(numberToRpcQuantity(_blockGasLimit'[1]))
                /\ Sends(r)' = 1
             \/ /\ pc'[r] = "failed"
                /\ rejection'[r] # undefined
                /\ error'[r] = rejection'[r]
                /\ Sends(r)' = 0]_vars

\* A call whose eth_estimateGas failed with an execution error is forwarded
\* with the cached block gas limit as its gas, under a multiplier other than 1.
C7_Witness ==
  \E r \in Requests :
    /\ pc[r] = "forward"
    /\ caught[r] # undefined
    /\ realEstimation[r] = undefined
    /\ ~MultiplierOne
    /\ BlockLookups(r) = 1
    /\ GasOf(args[r]) = _blockGasLimit[1]

\* C8: when a call the wrapped provider is asked during gas estimation fails
\* with an error whose message does not hold "execution error", request()
\* rejects with that same error, tx.gas is still absent, the failure leaves
\* the cached block gas limit as it was, and no eth_sendTransaction is
\* forwarded for the request.
C8_OtherErrorsPropagate ==
  [][\A r \in Requests :
       (/\ pc[r] \in EstimationAwaits
        /\ pc'[r] # pc[r]
        /\ rejection'[r] # undefined
        /\ ~includesExecutionError(toLowerCase(rejection'[r][1].message)))
       => /\ pc'[r] = "failed"
          /\ error'[r] = rejection'[r]
          /\ args[r].params[1].gas = undefined
          /\ Sends(r) = 0 /\ Sends(r)' = 0
          /\ _blockGasLimit' = _blockGasLimit]_vars

\* A call is rejected with the timeout of its block-gas-limit lookup.
C8_Witness ==
  \E r \in Requests :
    /\ pc[r] = "failed"
    /\ error[r] = Some([message |-> "timeout"])
    /\ rejection[r] = error[r]
    /\ _blockGasLimit = undefined

\* C9: with multiplier 1 and a successful eth_estimateGas, tx.gas is the raw
\* estimate as the wrapped provider returned it, the request issues no
\* eth_getBlockByNumber and does not set the cached block gas limit.
C9_MultiplierOnePassesEstimate ==
  [][\A r \in Requests :
       /\ (/\ pc[r] = "estimateGas"
           /\ realEstimation'[r] # undefined
           /\ MultiplierOne)
          => /\ pc'[r] = "forward"
             /\ Sends(r)' = 1
             /\ _blockGasLimit' = _blockGasLimit
       /\ (/\ realEstimation'[r] # undefined
           /\ MultiplierOne)
          => /\ args'[r].params[1].gas = realEstimation'[r]
             /\ BlockLookups(r)' = 0]_vars

\* Under multiplier 1 a call is forwarded with the raw estimate while the
\* cached block gas limit is unset.
C9_Witness ==
  \E r \in Requests :
    /\ pc[r] = "forward"
    /\ MultiplierOne
    /\ realEstimation[r] \in {Some(q) : q \in Estimations}
    /\ args[r].params[1].gas = realEstimation[r]
    /\ _blockGasLimit = undefined

\* ------------------------------------------------------------------------
\* Properties of AutomaticGasPriceProvider (checked under SpecGasPrice)

FeeHistoryCalls(r) == calls[r]["eth_feeHistory"]

\* The caller gave an eth_sendTransaction whose pricing is complete: gasPrice,
\* or both fee-market fields.
FullyPriced(a) ==
  /\ a.method = "eth_sendTransaction"
  /\ a.params # <<>>
  /\ \/ a.params[1].gasPrice # undefined
     \/ /\ a.params[1].maxFeePerGas # undefined
        /\ a.params[1].maxPriorityFeePerGas # undefined

\* C5: the latest-block lookup that detects fee-market support is issued at
\* most once over the lifetime of an AutomaticGasPriceProvider, however the
\* requests overlap; once _nodeSupportsEIP1559 is resolved it is never
\* queried again and never changes.
C5_FeeMarketSupportDetectedOnce ==
  [][/\ \A r1, r2 \in Requests :
          r1 # r2 => ~(BlockLookups(r1)' > 0 /\ BlockLookups(r2)' > 0)
     /\ _nodeSupportsEIP1559 # undefined =>
          /\ _nodeSupportsEIP1559' = _nodeSupportsEIP1559
          /\ \A r \in Requests : BlockLookups(r)' <= BlockLookups(r)]_vars

\* C6: the first failed eth_feeHistory sets _nodeHasFeeHistory to false; from
\* then on it stays false, no eth_feeHistory is issued to the wrapped
\* provider, and every _suggestEip1559FeePriceValues that had not yet issued
\* its eth_feeHistory returns undefined.
C6_FeeHistoryUnsupportedForever ==
  [][/\ \A r \in Requests :
          (pc[r] = "feeHistory" /\ pc'[r] # pc[r] /\ rejection'[r] # undefined)
          => _nodeHasFeeHistory' = Some(FALSE)
     /\ _nodeHasFeeHistory = Some(FALSE) =>
          /\ _nodeHasFeeHistory' = Some(FALSE)
          /\ \A r \in Requests :
               /\ FeeHistoryCalls(r)' <= FeeHistoryCalls(r)
               /\ (/\ pc[r] \in {"idle", "latestBlock"}
                   /\ suggestedEip1559Values'[r] # undefined)
                  => suggestedEip1559Values'[r] = Some(undefined)]_vars

\* After eth_feeHistory has failed, a later request on a node with a fee
\* market got undefined from _suggestEip1559FeePriceValues without asking for
\* the fee history, and is asking for the gas price instead.
C6_Witness ==
  /\ _nodeHasFeeHistory = Some(FALSE)
  /\ _nodeSupportsEIP1559 = Some(TRUE)
  /\ \E r \in Requests :
       /\ pc[r] \in {"gasPrice_legacy", "gasPrice_default"}
       /\ suggestedEip1559Values[r] = Some(undefined)
       /\ FeeHistoryCalls(r) = 0
       /\ BlockLookups(r) = 0

\* C10: an eth_sendTransaction that reaches AutomaticGasPriceProvider with
\* gasPrice set, or with both maxFeePerGas and maxPriorityFeePerGas set (also
\* when maxFeePerGas < maxPriorityFeePerGas), is forwarded as given: no field
\* of the transaction changes, the only request to the wrapped provider is the
\* forwarded one, and both support flags stay as they are.
C10_FullyPricedPassesThrough ==
  [][\A r \in Requests :
       /\ (pc[r] = "idle" /\ FullyPriced(given'[r]))
          => /\ pc'[r] = "forward"
             /\ _nodeHasFeeHistory' = _nodeHasFeeHistory
             /\ _nodeSupportsEIP1559' = _nodeSupportsEIP1559
       /\ FullyPriced(given'[r])
          => /\ args'[r] = given'[r]
             /\ calls'[r] =
                  [m \in Methods |->
                     IF m = "eth_sendTransaction" THEN 1 ELSE 0]
       /\ (FullyPriced(given[r]) /\ pc'[r] # pc[r])
          => /\ pc'[r] \in {"resolved", "rejected"}
             /\ _nodeHasFeeHistory' = _nodeHasFeeHistory
             /\ _nodeSupportsEIP1559' = _nodeSupportsEIP1559]_vars

\* A transaction given with maxFeePerGas 3 below maxPriorityFeePerGas 8 is
\* forwarded as given, with both flags still unknown.
C10_Witness ==
  \E r \in Requests :
    /\ pc[r] = "forward"
    /\ given[r].method = "eth_sendTransaction"
    /\ given[r].params # <<>>
    /\ given[r].params[1].gasPrice = undefined
    /\ given[r].params[1].maxFeePerGas = Some(numberToRpcQuantity(3))
    /\ given[r].params[1].maxPriorityFeePerGas = Some(numberToRpcQuantity(8))
    /\ args[r] = given[r]
    /\ Sends(r) = 1
    /\ _nodeHasFeeHistory = undefined
    /\ _nodeSupportsEIP1559 = undefined

GasPriceCalls(r) == calls[r]["eth_gasPrice"]

\* The requests a call that only forwards a request of method m has made.
OnlyForwarded(m) == [n \in Methods |-> IF n = m THEN 1 ELSE 0]

\* The caller gave an eth_sendTransaction with a transaction that has none of
\* the three pricing fields.
Unpriced(a) ==
  /\ a.method = "eth_sendTransaction"
  /\ a.params # <<>>
  /\ a.params[1].gasPrice = undefined
  /\ a.params[1].maxFeePerGas = undefined
  /\ a.params[1].maxPriorityFeePerGas = undefined

ResolvedFee(tx, suggested, field) ==
  IF tx[field] # undefined
    THEN rpcQuantityToNumber(tx[field][1])
    ELSE suggested[field]

\* Call r writes the fee-market fields in this step.
WritesFees(r) ==
  /\ pc[r] # "forward"
  /\ pc'[r] = "forward"
  /\ suggestedEip1559Values'[r] \notin {undefined, Some(undefined)}

\* C12: whenever the fee-market fields are written, maxPriorityFeePerGas is
\* the resolved value, maxFeePerGas is the resolved value if that is at least
\* maxPriorityFeePerGas and the sum of the two resolved values otherwise, and
\* the stored maxFeePerGas is at least the stored maxPriorityFeePerGas.
C12_MaxFeeCorrectedBySum ==
  [][\A r \in Requests :
       WritesFees(r) =>
         LET tx == given'[r].params[1]
             suggested == suggestedEip1559Values'[r][1][1]
             maxFeePerGas == ResolvedFee(tx, suggested, "maxFeePerGas")
             maxPriorityFeePerGas ==
               ResolvedFee(tx, suggested, "maxPriorityFeePerGas")
             stored == args'[r].params[1]
             storedMaxFee == rpcQuantityToNumber(stored.maxFeePerGas[1])
             storedMaxPriorityFee ==
               rpcQuantityToNumber(stored.maxPriorityFeePerGas[1])
         IN  /\ storedMaxPriorityFee = maxPriorityFeePerGas
             /\ maxFeePerGas < maxPriorityFeePerGas =>
                  storedMaxFee = maxFeePerGas + maxPriorityFeePerGas
             /\ maxFeePerGas >= maxPriorityFeePerGas =>
                  storedMaxFee = maxFeePerGas
             /\ storedMaxFee >= storedMaxPriorityFee]_vars

\* The caller's maxFeePerGas 3 is below the suggested maxPriorityFeePerGas 6:
\* the transaction is forwarded with maxFeePerGas 9.
C12_Witness ==
  \E r \in Requests :
    /\ pc[r] = "forward"
    /\ given[r].params # <<>>
    /\ given[r].params[1].maxFeePerGas = Some(numberToRpcQuantity(3))
    /\ given[r].params[1].maxPriorityFeePerGas = undefined
    /\ given[r].params[1].gasPrice = undefined
    /\ args[r].params[1].maxFeePerGas = Some(numberToRpcQuantity(9))
    /\ args[r].params[1].maxPriorityFeePerGas = Some(numberToRpcQuantity(6))

\* The caller gave an eth_sendTransaction whose transaction has exactly one of
\* the two fee-market fields and no gasPrice.
OneFeeField(a) ==
  /\ a.method = "eth_sendTransaction"
  /\ a.params # <<>>
  /\ a.params[1].gasPrice = undefined
  /\ (a.params[1].maxFeePerGas = undefined)
       # (a.params[1].maxPriorityFeePerGas = undefined)

\* C14: for a transaction given with exactly one fee-market field and no
\* gasPrice, gasPrice is never written and eth_gasPrice is asked only for
\* default fee values, when the projection is unavailable; when the fields
\* are written, the missing field is resolved from the projection of the
\* eth_feeHistory answer, or from the eth_gasPrice answer, and the caller's
\* field from the caller's value; maxPriorityFeePerGas is stored as resolved
\* and maxFeePerGas as resolved, raised by the resolved maxPriorityFeePerGas
\* when it is below it.
C14_OneFeeFieldKept ==
  [][\A r \in Requests :
       OneFeeField(given'[r]) =>
         LET tx == given'[r].params[1]
             stored == args'[r].params[1]
         IN  /\ stored.gasPrice = undefined
             /\ pc'[r] # "gasPrice_legacy"
             /\ (/\ pc'[r] # pc[r]
                 /\ \/ /\ pc[r] = "idle"
                       /\ \/ _nodeSupportsEIP1559 = Some(FALSE)
                          \/ /\ _nodeSupportsEIP1559 = Some(TRUE)
                             /\ _nodeHasFeeHistory = Some(FALSE)
                    \/ /\ pc[r] = "latestBlock"
                       /\ rejection'[r] = undefined
                       /\ \/ _nodeSupportsEIP1559' = Some(FALSE)
                          \/ _nodeHasFeeHistory = Some(FALSE)
                    \/ /\ pc[r] = "feeHistory"
                       /\ rejection'[r] # undefined)
                => /\ pc'[r] = "gasPrice_default"
                   /\ stored = tx
             /\ WritesFees(r) =>
                  LET suggested == suggestedEip1559Values'[r][1][1]
                      maxFeePerGas ==
                        IF tx.maxFeePerGas # undefined
                          THEN rpcQuantityToNumber(tx.maxFeePerGas[1])
                          ELSE suggested.maxFeePerGas
                      maxPriorityFeePerGas ==
                        IF tx.maxPriorityFeePerGas # undefined
                          THEN rpcQuantityToNumber(tx.maxPriorityFeePerGas[1])
                          ELSE suggested.maxPriorityFeePerGas
                  IN  /\ pc[r] \in {"feeHistory", "gasPrice_default"}
                      /\ pc[r] = "feeHistory" =>
                           /\ response'[r] # undefined
                           /\ suggested.maxFeePerGas =
                                (rpcQuantityToNumber(
                                   response'[r][1].baseFeePerGas[2]) * 81)
                                  \div 64
                           /\ suggested.maxPriorityFeePerGas =
                                rpcQuantityToNumber(
                                  response'[r][1].reward[1][1])
                      /\ pc[r] = "gasPrice_default" =>
                           \E fetched \in GasPrices :
                             /\ suggested.maxFeePerGas =
                                  rpcQuantityToNumber(fetched)
                             /\ suggested.maxPriorityFeePerGas =
                                  rpcQuantityToNumber(fetched)
                      /\ stored.maxPriorityFeePerGas =
                           Some(numberToRpcQuantity(maxPriorityFeePerGas))
                      /\ stored.maxFeePerGas =
                           Some(numberToRpcQuantity(
                             IF maxFeePerGas < maxPriorityFeePerGas
                               THEN maxFeePerGas + maxPriorityFeePerGas
                               ELSE maxFeePerGas))
                      /\ stored.gas = tx.gas]_vars

\* On a node without a fee market a transaction given with
\* maxPriorityFeePerGas 8 alone is forwarded with maxFeePerGas 9, the gas
\* price, maxPriorityFeePerGas 8 and no gasPrice.
C14_Witness ==
  \E r \in Requests :
    /\ pc[r] = "forward"
    /\ _nodeSupportsEIP1559 = Some(FALSE)
    /\ OneFeeField(given[r])
    /\ given[r].params[1].maxPriorityFeePerGas = Some(numberToRpcQuantity(8))
    /\ GasPriceCalls(r) = 1
    /\ FeeHistoryCalls(r) = 0
    /\ args[r].params[1] =
         Tx(undefined, undefined, Some(numberToRpcQuantity(9)),
            Some(numberToRpcQuantity(8)))

\* C19: AutomaticGasPriceProvider changes gasPrice only on a transaction
\* given without fee-market fields, and then writes none; it changes a
\* fee-market field only on a transaction given without gasPrice, and then
\* writes none; so a transaction that carries gasPrice together with a
\* fee-market field is as the caller gave it.
C19_PricingModelsNotMixed ==
  \A r \in Requests :
    args[r].params # <<>> =>
      LET tx == given[r].params[1]
          stored == args[r].params[1]
      IN  /\ stored.gasPrice # tx.gasPrice =>
               /\ tx.maxFeePerGas = undefined
               /\ tx.maxPriorityFeePerGas = undefined
               /\ stored.maxFeePerGas = undefined
               /\ stored.maxPriorityFeePerGas = undefined
          /\ (\/ stored.maxFeePerGas # tx.maxFeePerGas
              \/ stored.maxPriorityFeePerGas # tx.maxPriorityFeePerGas) =>
               /\ tx.gasPrice = undefined
               /\ stored.gasPrice = undefined
          /\ (/\ stored.gasPrice # undefined
              /\ \/ stored.maxFeePerGas # undefined
                 \/ stored.maxPriorityFeePerGas # undefined) =>
               stored = tx

\* A transaction the caller gave with gasPrice 3 and maxFeePerGas 3 is being
\* forwarded with both, as given, after the fee market was detected.
C19_Witness ==
  \E r \in Requests :
    /\ pc[r] = "forward"
    /\ _nodeSupportsEIP1559 = Some(TRUE)
    /\ given[r].params # <<>>
    /\ given[r].params[1].gasPrice = Some(numberToRpcQuantity(3))
    /\ given[r].params[1].maxFeePerGas = Some(numberToRpcQuantity(3))
    /\ args[r] = given[r]
    /\ \E q \in Requests :
         /\ pc[q] = "forward"
         /\ Unpriced(given[q])
         /\ args[q].params[1].gasPrice = undefined
         /\ args[q].params[1].maxFeePerGas # undefined

\* C20: when the latest-block lookup of the fee-market detection fails, the
\* call is rejected with the lookup's error, its transaction is as given,
\* nothing is forwarded, and both support flags are unknown afterwards; a
\* request that needs pricing while _nodeSupportsEIP1559 is unknown starts
\* with the detection lookup.
C20_FailedDetectionLeavesFlagsUnknown ==
  [][\A r \in Requests :
       /\ (/\ pc[r] = "latestBlock"
           /\ pc'[r] # pc[r]
           /\ rejection'[r] # undefined)
          => /\ pc'[r] = "failed"
             /\ error'[r] = rejection'[r]
             /\ args[r] = given[r]
             /\ Sends(r) = 0
             /\ _nodeSupportsEIP1559' = undefined
             /\ _nodeHasFeeHistory' = undefined
       /\ (/\ pc[r] = "idle"
           /\ pc'[r] # "idle"
           /\ given'[r].method = "eth_sendTransaction"
           /\ given'[r].params # <<>>
           /\ ~FullyPriced(given'[r])
           /\ _nodeSupportsEIP1559 = undefined)
          => /\ pc'[r] = "latestBlock"
             /\ BlockLookups(r)' = 1]_vars

\* ------------------------------------------------------------------------
\* Properties of _suggestEip1559FeePriceValues (checked under SpecFeeHistory)

\* C13: when eth_feeHistory answered baseFeePerGas = [b0, b1] and
\* reward = [[r]], the suggested values are maxPriorityFeePerGas = r and
\* maxFeePerGas = floor(b1 * 81 / 64), for every b1 and r in range, whatever
\* b0 is.
C13_SuggestedFromSecondBaseFee ==
  \A r \in Requests :
    response[r] # undefined =>
      LET b1 == rpcQuantityToNumber(response[r][1].baseFeePerGas[2])
          rw == rpcQuantityToNumber(response[r][1].reward[1][1])
      IN  suggestedEip1559Values[r] =
            Some(Some([maxFeePerGas |-> (b1 * 81) \div 64,
                       maxPriorityFeePerGas |-> rw]))

\* eth_feeHistory answered [50, 20], [[3]]: the suggested values are 25 and 3
\* and the transaction is forwarded with them.
C13_Witness ==
  \E r \in Requests :
    /\ pc[r] = "forward"
    /\ response[r] # undefined
    /\ response[r][1].baseFeePerGas =
         <<numberToRpcQuantity(50), numberToRpcQuantity(20)>>
    /\ response[r][1].reward = << <<numberToRpcQuantity(3)>> >>
    /\ suggestedEip1559Values[r] =
         Some(Some([maxFeePerGas |-> 25, maxPriorityFeePerGas |-> 3]))
    /\ Unpriced(given[r])
    /\ args[r].params[1].maxFeePerGas = Some(numberToRpcQuantity(25))
    /\ args[r].params[1].maxPriorityFeePerGas = Some(numberToRpcQuantity(3))

\* ------------------------------------------------------------------------
\* Properties of FixedGasProvider (checked under SpecFixedGas)

\* C16: FixedGasProvider forwards every eth_sendTransaction at once and makes
\* no other request; a transaction without gas is forwarded with gas equal to
\* the configured limit, encoded as a quantity, one with gas is forwarded with
\* the gas it has, and no other field of the transaction changes.
C16_FixedGasSetWhenAbsent ==
  [][\A r \in Requests :
       (pc[r] = "idle" /\ pc'[r] # "idle"
          /\ given'[r].method = "eth_sendTransaction")
       => /\ pc'[r] = "forward"
          /\ calls'[r] = OnlyForwarded("eth_sendTransaction")
          /\ args'[r].method = given'[r].method
          /\ IF given'[r].params = <<>>
               THEN args'[r] = given'[r]
               ELSE LET tx == given'[r].params[1]
                    IN  args'[r].params =
                          <<[tx EXCEPT !.gas =
                               IF tx.gas = undefined
                                 THEN Some(numberToRpcQuantity(_gasLimit))
                                 ELSE tx.gas]>>]_vars

\* A transaction given with gasPrice 3 and no gas is being forwarded with gas
\* 300 (0x12c) and gasPrice 3.
C16_Witness ==
  \E r \in Requests :
    /\ policy = "FixedGasProvider"
    /\ _gasLimit = 300
    /\ pc[r] = "forward"
    /\ given[r].method = "eth_sendTransaction"
    /\ given[r].params =
         <<Tx(undefined, Some(numberToRpcQuantity(3)), undefined, undefined)>>
    /\ args[r].params =
         <<Tx(Some(<<1, 2, 12>>), Some(numberToRpcQuantity(3)), undefined,
              undefined)>>
    /\ Sends(r) = 1

\* ------------------------------------------------------------------------
\* Properties of FixedGasPriceProvider (checked under SpecFixedGasPrice)

\* C17: FixedGasPriceProvider forwards every eth_sendTransaction at once; the
\* transaction is forwarded with gasPrice equal to the configured price if it
\* was given with none of gasPrice, maxFeePerGas and maxPriorityFeePerGas, and
\* as given if it has any of them.
C17_FixedGasPriceSetWhenUnpriced ==
  [][\A r \in Requests :
       (pc[r] = "idle" /\ pc'[r] # "idle"
          /\ given'[r].method = "eth_sendTransaction")
       => /\ pc'[r] = "forward"
          /\ calls'[r] = OnlyForwarded("eth_sendTransaction")
          /\ args'[r].method = given'[r].method
          /\ IF Unpriced(given'[r])
               THEN args'[r].params =
                      <<[given'[r].params[1] EXCEPT !.gasPrice =
                           Some(numberToRpcQuantity(_gasPrice))]>>
               ELSE args'[r] = given'[r]]_vars

\* A transaction given without pricing fields is being forwarded with
\* gasPrice 17 (0x11) and no fee-market field.
C17_Witness ==
  \E r \in Requests :
    /\ policy = "FixedGasPriceProvider"
    /\ _gasPrice = 17
    /\ pc[r] = "forward"
    /\ Unpriced(given[r])
    /\ args[r].params = <<Tx(undefined, Some(<<1, 1>>), undefined, undefined)>>
    /\ Sends(r) = 1

\* ------------------------------------------------------------------------
\* Properties of all four policies (checked under Spec)

\* C15: a request whose method is not eth_sendTransaction is forwarded at
\* once with its arguments as given, by each of the four policies; the call
\* makes no other request to the wrapped provider, changes no field of the
\* instance, and settles with the wrapped provider's result or with its
\* error, unchanged.
C15_OtherMethodsPassThrough ==
  [][\A r \in Requests :
       /\ (pc[r] = "idle" /\ pc'[r] # "idle"
             /\ given'[r].method # "eth_sendTransaction")
          => /\ pc'[r] = "forward"
             /\ args'[r] = given'[r]
             /\ calls'[r] = OnlyForwarded(given'[r].method)
             /\ fields' = fields
       /\ (pc[r] # "idle" /\ pc'[r] # pc[r]
             /\ given[r].method \notin {"eth_sendTransaction", "none"})
          => /\ pc[r] = "forward"
             /\ fields' = fields
             /\ IF rejection'[r] = undefined
                  THEN /\ pc'[r] = "resolved"
                       /\ result'[r] \in {Some(v) : v \in ForwardResults}
                       /\ error'[r] = undefined
                  ELSE /\ pc'[r] = "rejected"
                       /\ error'[r] = rejection'[r]
                       /\ result'[r] = undefined]_vars

\* An eth_call whose call object has no gas and no pricing field is being
\* forwarded as given by an AutomaticGasProvider with a multiplier other
\* than 1.
C15_Witness ==
  \E r \in Requests :
    /\ policy = "AutomaticGasProvider"
    /\ ~MultiplierOne
    /\ pc[r] = "forward"
    /\ given[r].method = "eth_call"
    /\ given[r].params[1].gas = undefined
    /\ args[r] = given[r]
    /\ calls[r] = OnlyForwarded("eth_call")
    /\ fields = <<undefined, undefined, undefined>>

\* The awaits of a policy before it forwards the request.
AuxiliaryAwaits ==
  {"estimateGas", "blockGasLimit_try", "blockGasLimit_catch", "latestBlock",
   "feeHistory", "gasPrice_legacy", "gasPrice_default"}

\* The transaction of the RequestArguments a, if there is one, has the field
\* that the policy is there to provide.
FieldsWritten(a) ==
  a.params # <<>> =>
    LET tx == a.params[1]
    IN  CASE policy \in {"FixedGasProvider", "AutomaticGasProvider"} ->
               tx.gas # undefined
          [] policy = "FixedGasPriceProvider" ->
               \/ tx.gasPrice # undefined
               \/ tx.maxFeePerGas # undefined
               \/ tx.maxPriorityFeePerGas # undefined
          [] policy = "AutomaticGasPriceProvider" ->
               \/ tx.gasPrice # undefined
               \/ /\ tx.maxFeePerGas # undefined
                  /\ tx.maxPriorityFeePerGas # undefined

\* C18: a call of request() for an eth_sendTransaction has not forwarded the
\* request while it waits for an auxiliary request; it forwards it with the
\* gas fields written, and from then on it makes no request and changes no
\* argument until the forwarded request settles; it forwards at most once;
\* a call whose policy work raised an error forwarded nothing.
C18_ForwardedAfterPolicyWork ==
  [][\A r \in Requests :
       /\ Sends(r)' <= 1
       /\ pc'[r] \in AuxiliaryAwaits => Sends(r)' = 0
       /\ (/\ pc[r] # "forward" /\ pc'[r] = "forward"
           /\ given'[r].method = "eth_sendTransaction")
          => /\ Sends(r) = 0
             /\ Sends(r)' = 1
             /\ \A m \in Methods \ {"eth_sendTransaction"} :
                  calls'[r][m] = calls[r][m]
             /\ FieldsWritten(args'[r])
       /\ pc[r] = "forward"
          => /\ pc'[r] \in {"forward", "resolved", "rejected"}
             /\ pc'[r] = "forward" =>
                  args'[r] = args[r] /\ calls'[r] = calls[r]
       /\ (pc[r] # "failed" /\ pc'[r] = "failed")
          => /\ pc[r] \in AuxiliaryAwaits
             /\ Sends(r) = 0
             /\ rejection'[r] # undefined
             /\ error'[r] = rejection'[r]]_vars

\* A call of AutomaticGasPriceProvider has looked up the latest block, asked
\* for the fee history and for the gas price, and is now forwarding the
\* request, once.
C18_Witness ==
  \E r \in Requests :
    /\ policy = "AutomaticGasPriceProvider"
    /\ pc[r] = "forward"
    /\ BlockLookups(r) = 1
    /\ FeeHistoryCalls(r) = 1
    /\ GasPriceCalls(r) = 1
    /\ Sends(r) = 1
    /\ FieldsWritten(args[r])

====
